---- MODULE Spec2Model ----
(***************************************************************************)
(* strip-media-queries: the Stripper of src/src/stripper.js.               *)
(*                                                                         *)
(* A stylesheet is read from disk as text, parsed into an ordered list of  *)
(* nodes (css.parse), filtered by the four width classifiers, reassembled  *)
(* (stripFile) and serialised again (css.stringify).  launch() runs two    *)
(* phases over the source file list: writeMediaQueriesFile (the combined   *)
(* file) and then writeStrippedFile (one stripped file per source).        *)
(*                                                                         *)
(* Text is modelled as a sequence of raw nodes; a parsed node is a raw     *)
(* node that carries its position in the file.  One action of the run is   *)
(* one turn of the event loop: the completion of one file read or write    *)
(* together with the promise callbacks that run before the next turn.      *)
(***************************************************************************)
EXTENDS Integers, Sequences, FiniteSets, TLC

(* ------------------------------ bounds -------------------------------- *)

\* longest top-level rule list of a stylesheet handed to stripFile in SpecFn
MaxRules == 2

\* longest source file list of a run of launch() in Spec
MaxFiles == 2

(* ------------------------- characters and text ------------------------ *)

\* `${width}px`
Px(width) == width \o <<"p", "x">>

W1200 == <<"1", "2", "0", "0">>
W200 == <<"2", "0", "0">>
W300 == <<"3", "0", "0">>

\* the width tokens an option list is drawn from
WidthTokens == {W1200, W200, W300}

\* "(min-width:1200px)", "(min-width:300px)", "print"
MinWidth(width) ==
    <<"(", "m", "i", "n", "-", "w", "i", "d", "t", "h", ":">> \o Px(width) \o <<")">>

CondPrint == <<"p", "r", "i", "n", "t">>

Conditions == {MinWidth(W1200), MinWidth(W300), CondPrint}

\* String.prototype.match with a string argument: the argument is compiled
\* as a regular expression and searched for anywhere in the subject.  Of the
\* regular-expression syntax the characters used here are literals, and "."
\* which stands for any one character.
Match(media, pattern) ==
    \E i \in 0..(Len(media) - Len(pattern)) :
        \A j \in 1..Len(pattern) : pattern[j] = "." \/ pattern[j] = media[i + j]

(* ------------------------------ nodes ---------------------------------- *)

\* a node of css text: a plain rule, or an @media block with its condition
\* and its nested nodes
RawRule(sel) == [type |-> "rule", sel |-> sel, media |-> <<>>, rules |-> <<>>]

RawMedia(media, rules) == [type |-> "media", sel |-> "@media", media |-> media, rules |-> rules]

\* what an @media block holds in the stylesheets that are enumerated: a rule,
\* or a rule followed by a nested @media block
ChildLists ==
    {<<RawRule(".y")>>}
        \cup {<<RawRule(".y"), RawMedia(c, <<RawRule(".z")>>)>> : c \in Conditions}

RawNodes == {RawRule(".x")} \cup {RawMedia(c, k) : c \in Conditions, k \in ChildLists}

SeqsUpTo(S, n) == UNION {[1..k -> S] : k \in 0..n}

\* css.parse: every node gets its position
RECURSIVE ParseNodes(_, _)
ParseNodes(raw, at) ==
    [k \in 1..Len(raw) |->
        [type |-> raw[k].type, sel |-> raw[k].sel, media |-> raw[k].media,
         rules |-> ParseNodes(raw[k].rules, at \o <<k>>),
         position |-> at \o <<k>>]]

Parse(source) == ParseNodes(source, <<>>)

\* css.stringify: the text of the nodes, positions are not part of it
RECURSIVE Stringify(_)
Stringify(rules) ==
    [k \in 1..Len(rules) |->
        [type |-> rules[k].type, sel |-> rules[k].sel, media |-> rules[k].media,
         rules |-> Stringify(rules[k].rules)]]

(* ---------------------------- classifiers ------------------------------ *)

filterMediaQueriesToExtract(ext, rule) ==
    rule.type = "media" /\ \E extractWidth \in ext : Match(rule.media, Px(extractWidth))

filterMediaQueriesNotToExtract(ext, rule) ==
    \/ rule.type # "media"
    \/ rule.type = "media" /\ \A extractWidth \in ext : ~Match(rule.media, Px(extractWidth))

\* filterMediaQueries with some() for every(): a media block is kept as soon
\* as one width does not match
filterMediaQueries_some(ws, rule) ==
    \/ rule.type # "media"
    \/ rule.type = "media" /\ \E width \in ws : ~Match(rule.media, Px(width))

filterMediaQueries(ws, rule) ==
    \/ rule.type # "media"
    \/ rule.type = "media" /\ \A width \in ws : ~Match(rule.media, Px(width))

\* filterNonMediaQueries with every() for some()
filterNonMediaQueries_every(ws, rule) ==
    rule.type = "media" /\ \A width \in ws : Match(rule.media, Px(width))

filterNonMediaQueries(ws, rule) ==
    rule.type = "media" /\ \E width \in ws : Match(rule.media, Px(width))

\* the table `filters`
filters(name, ws, rule) ==
    CASE name = "strip" -> filterMediaQueries(ws, rule)
      [] name = "original" -> filterNonMediaQueries(ws, rule)
      [] name = "extract" -> filterMediaQueriesToExtract(ws, rule)
      [] name = "stripExtract" -> filterMediaQueriesNotToExtract(ws, rule)

(* ------------------------------- state --------------------------------- *)

VARIABLES
    files,              \* instance.files: the resolved source file list
    widths,             \* instance.options.widths
    extract,            \* instance.options.extract
    overrideOriginal,   \* instance.options.overrideOriginal
    disk,               \* the file system: path -> text
    cssCache,           \* instance._cssCache: path -> parsed rules
    launched,           \* the promise launch() returns: new, pending, resolved, rejected
    phase1,             \* per source file, its stripFile('original') of writeMediaQueriesFile
    strippedFiles,      \* the values Promise.all collects in writeMediaQueriesFile
    destWrite,          \* the fs.writeFile of the combined file: none, pending, ok, failed
    destData,           \* the text handed to that fs.writeFile
    phase2,             \* per source file, its step of writeStrippedFile
    writeData,          \* per source file, the text handed to its fs.writeFile
    fn,                 \* SpecFn: one stylesheet going through stripFile
    given,              \* the file lists of the options handed to the constructor
    built,              \* the constructor: no (not called), yes, threw
    dest,               \* instance.options.dest
    strippedSuffix,     \* instance.options.strippedSuffix
    reads               \* path -> the fs.readFile calls issued for it in the run

vars ==
    <<files, widths, extract, overrideOriginal, disk, cssCache, launched, phase1,
      strippedFiles, destWrite, destData, phase2, writeData, fn, given, built, dest,
      strippedSuffix, reads>>

options == <<files, widths, extract, overrideOriginal, given, built, dest, strippedSuffix>>

run ==
    <<disk, cssCache, launched, phase1, strippedFiles, destWrite, destData, phase2,
      writeData, reads>>

(* ------------------------------- paths --------------------------------- *)

\* a path is its characters
DotCss == <<".", "c", "s", "s">>

Stripped == <<"s", "t", "r", "i", "p", "p", "e", "d">>

\* "a.css", "b.css"
PathA == <<"a">> \o DotCss
PathB == <<"b">> \o DotCss

SourcePaths == {PathA, PathB}

\* "out.css"
OutCss == <<"o", "u", "t">> \o DotCss

\* the default of strippedSuffix
DefaultSuffix == Stripped

\* pattern is in text right after its first i characters
OccursAt(text, pattern, i) ==
    /\ i + Len(pattern) <= Len(text)
    /\ \A j \in 1..Len(pattern) : text[i + j] = pattern[j]

\* String.prototype.replace with a string pattern: the first occurrence is
\* replaced, a text without the pattern is returned as it is
ReplaceFirst(path, pattern, by) ==
    IF \E i \in 0..Len(path) : OccursAt(path, pattern, i)
    THEN LET i == CHOOSE i \in 0..Len(path) :
                      /\ OccursAt(path, pattern, i)
                      /\ \A j \in 0..(i - 1) : ~OccursAt(path, pattern, j)
         IN  SubSeq(path, 1, i) \o by \o SubSeq(path, i + Len(pattern) + 1, Len(path))
    ELSE path

\* strippedSuffix.replace(/\.css$|\./g, ''): a closing ".css" and every dot
\* are taken out
CleanSuffix(suffix) ==
    LET n == Len(suffix) - Len(DotCss)
        cut == IF n >= 0 /\ OccursAt(suffix, DotCss, n) THEN SubSeq(suffix, 1, n) ELSE suffix
    IN  SelectSeq(cut, LAMBDA c : c # ".")

\* the path writeStrippedFile writes the stripped file of `filename` to
StrippedPath(filename) ==
    IF ~overrideOriginal
    THEN ReplaceFirst(filename, DotCss, <<".">> \o CleanSuffix(strippedSuffix) \o DotCss)
    ELSE filename

(* ------------------------------ stripFile ------------------------------ *)

\* Array.prototype.concat(...lists)
RECURSIVE Concat(_)
Concat(lists) == IF lists = <<>> THEN <<>> ELSE Head(lists) \o Concat(Tail(lists))

Filter(rules, name, ws) == SelectSeq(rules, LAMBDA rule : filters(name, ws, rule))

\* stripFile taking the blocks to unwrap from all the rules of the file, not
\* from the ones the strip filter kept
stripRules_unwrapAll(filter, rules) ==
    LET strippedContent == Filter(rules, filter, widths)
        unwrap == filter = "strip" /\ extract # {}
        candidates == Filter(rules, "extract", extract)
        extractedContent ==
            IF unwrap THEN [k \in 1..Len(candidates) |-> candidates[k].rules] ELSE <<>>
        kept ==
            IF unwrap THEN Filter(strippedContent, "stripExtract", extract)
            ELSE strippedContent
    IN  kept \o Concat(extractedContent)

\* stripFile without the second filter: the unwrapped blocks stay as well
stripRules_keepWrapper(filter, rules) ==
    LET strippedContent == Filter(rules, filter, widths)
        unwrap == filter = "strip" /\ extract # {}
        candidates == Filter(strippedContent, "extract", extract)
        extractedContent ==
            IF unwrap THEN [k \in 1..Len(candidates) |-> candidates[k].rules] ELSE <<>>
    IN  strippedContent \o Concat(extractedContent)

\* stripFile unwrapping for every filter, 'original' included
stripRulesWith_extractAlways(filter, rules, ws, ext) ==
    LET strippedContent == Filter(rules, filter, ws)
        unwrap == ext # {}
        candidates == Filter(strippedContent, "extract", ext)
        extractedContent ==
            IF unwrap THEN [k \in 1..Len(candidates) |-> candidates[k].rules] ELSE <<>>
        kept ==
            IF unwrap THEN Filter(strippedContent, "stripExtract", ext)
            ELSE strippedContent
    IN  kept \o Concat(extractedContent)

\* the body of stripFile under the options widths = ws and extract = ext
stripRulesWith(filter, rules, ws, ext) ==
    LET strippedContent == Filter(rules, filter, ws)
        unwrap == filter = "strip" /\ ext # {}
        candidates == Filter(strippedContent, "extract", ext)
        extractedContent ==
            IF unwrap THEN [k \in 1..Len(candidates) |-> candidates[k].rules] ELSE <<>>
        kept ==
            IF unwrap THEN Filter(strippedContent, "stripExtract", ext)
            ELSE strippedContent
    IN  kept \o Concat(extractedContent)

\* the rules of the stylesheet stripFile builds from the parsed rules of a file,
\* under the options of the instance
stripRules(filter, rules) == stripRulesWith(filter, rules, widths, extract)

\* stripFile once the parsed css is there: the text of the rebuilt stylesheet
stripFile(filter, cssFile) == Stringify(stripRules(filter, cssFile))

(* ------------------------- the run of launch() ------------------------- *)

Tasks == 1..Len(files)

NewLine == [type |-> "newline", sel |-> "\n", media |-> <<>>, rules |-> <<>>]

\* Array.prototype.join('\n') of texts
RECURSIVE Join(_)
Join(texts) ==
    IF texts = <<>> THEN <<>>
    ELSE IF Len(texts) = 1 THEN texts[1]
    ELSE texts[1] \o <<NewLine>> \o Join(Tail(texts))

Unsettled == [settled |-> FALSE, value |-> <<>>]

\* values collected in the order they arrive: the value goes to the first
\* free place
Collect_push(values, i, value) ==
    LET free == CHOOSE k \in 1..Len(values) :
                    ~values[k].settled /\ \A j \in 1..(k - 1) : values[j].settled
    IN  [values EXCEPT ![free] = [settled |-> TRUE, value |-> value]]

\* Promise.all: the value of the i-th promise goes to the i-th place
Collect(values, i, value) == [values EXCEPT ![i] = [settled |-> TRUE, value |-> value]]

Values(values) == [i \in 1..Len(values) |-> values[i].value]

\* fs.writeFile completing: the file holds the text
WriteFile(d, path, text) == [p \in DOMAIN d \cup {path} |-> IF p = path THEN text ELSE d[p]]

\* getParsedCSS storing the parse of what it read
CacheParsed(cache, filename, source) ==
    [p \in DOMAIN cache \cup {filename} |-> IF p = filename THEN Parse(source) ELSE cache[p]]

\* stripFile putting the rules it built into the stylesheet it was given
AfterStripFile_inPlace(filter, cssFile) == stripRules(filter, cssFile)

\* the rules of the cached stylesheet once stripFile has run on it: filter, map
\* and concat return new arrays and both Object.assign calls copy into a new
\* object, so the stylesheet given is left as it was
AfterStripFile(filter, cssFile) == cssFile

\* the fs.readFile calls counted: one more for every step that is reading
IssueReads(counted, steps) ==
    LET reading(p) == {i \in Tasks : files[i] = p /\ steps[i] = "reading"}
    IN  [p \in DOMAIN counted \cup {files[i] : i \in {j \in Tasks : steps[j] = "reading"}} |->
            (IF p \in DOMAIN counted THEN counted[p] ELSE 0) + Cardinality(reading(p))]

\* getParsedCSS without the look into the cache: every call reads the file
StartStripped_alwaysRead(cache, i) == [step |-> "reading", data |-> <<>>]

\* writeStrippedFile: stripFile('strip') for every file; with the file in the
\* cache the stripped text is there in the same turn and its write is issued,
\* otherwise a read is issued
StartStripped(cache, i) ==
    IF files[i] \in DOMAIN cache
    THEN [step |-> "writing", data |-> stripFile("strip", cache[files[i]])]
    ELSE [step |-> "reading", data |-> <<>>]

\* the cache after writeStrippedFile has called stripFile('strip') for the
\* first n files, in list order
RECURSIVE CacheAfterStripped(_, _)
CacheAfterStripped(cache, n) ==
    IF n = 0 THEN cache
    ELSE LET before == CacheAfterStripped(cache, n - 1)
         IN  IF files[n] \in DOMAIN before
             THEN [before EXCEPT ![files[n]] = AfterStripFile("strip", @)]
             ELSE before

\* launch() starting both phases at once
Launch_concurrent ==
    /\ built = "yes"
    /\ launched = "new"
    /\ cssCache' = <<>>
    /\ phase1' = [i \in Tasks |-> "reading"]
    /\ strippedFiles' = [i \in Tasks |-> Unsettled]
    /\ IF Tasks = {}
       THEN destWrite' = "pending" /\ destData' = <<>>
       ELSE destWrite' = "none" /\ destData' = <<>>
    /\ launched' = "pending"
    /\ phase2' = [i \in Tasks |-> StartStripped(<<>>, i).step]
    /\ writeData' = [i \in Tasks |-> StartStripped(<<>>, i).data]
    /\ reads' = IssueReads(IssueReads(<<>>, phase1'), phase2')
    /\ UNCHANGED <<options, disk, fn>>

\* the turn in which launch() is called: the cache is emptied and
\* writeMediaQueriesFile starts stripFile('original') for every file; with a
\* file in the cache the text is there at once, otherwise a read is issued.
\* With every text there Promise.all is fulfilled and the combined file's
\* write is issued.
Launch ==
    /\ built = "yes"
    /\ launched = "new"
    /\ LET cache == <<>>
           hit(i) == files[i] \in DOMAIN cache
           collected ==
               [i \in Tasks |->
                   IF hit(i)
                   THEN [settled |-> TRUE, value |-> stripFile("original", cache[files[i]])]
                   ELSE Unsettled]
       IN  /\ cssCache' = cache
           /\ phase1' = [i \in Tasks |-> IF hit(i) THEN "done" ELSE "reading"]
           /\ strippedFiles' = collected
           /\ IF \A i \in Tasks : hit(i)
              THEN destWrite' = "pending" /\ destData' = Join(Values(collected))
              ELSE destWrite' = "none" /\ destData' = <<>>
    /\ launched' = "pending"
    /\ phase2' = [i \in Tasks |-> "idle"]
    /\ writeData' = [i \in Tasks |-> <<>>]
    /\ reads' = IssueReads(<<>>, phase1')
    /\ UNCHANGED <<options, disk, fn>>

\* the cache emptied once more when phase 2 starts
ThenWriteStripped_cacheReset(ok) ==
    IF ok
    THEN /\ phase2' = [i \in Tasks |-> StartStripped(<<>>, i).step]
         /\ writeData' = [i \in Tasks |-> StartStripped(<<>>, i).data]
         /\ cssCache' = <<>>
         /\ launched' = IF Tasks = {} THEN "resolved" ELSE launched
         /\ reads' = IssueReads(reads, phase2')
    ELSE /\ launched' = "rejected"
         /\ UNCHANGED <<phase2, writeData, cssCache, reads>>

\* phase 2 started whether the combined file was written or not
ThenWriteStripped_regardless(ok) ==
    /\ phase2' = [i \in Tasks |-> StartStripped(CacheAfterStripped(cssCache, i - 1), i).step]
    /\ writeData' = [i \in Tasks |-> StartStripped(CacheAfterStripped(cssCache, i - 1), i).data]
    /\ cssCache' = CacheAfterStripped(cssCache, Len(files))
    /\ launched' = IF ok THEN (IF Tasks = {} THEN "resolved" ELSE launched) ELSE "rejected"
    /\ reads' = IssueReads(reads, phase2')

\* the then() of launch(): phase 2 follows the combined file's write
ThenWriteStripped(ok) ==
    IF ok
    THEN /\ phase2' = [i \in Tasks |-> StartStripped(CacheAfterStripped(cssCache, i - 1), i).step]
         /\ writeData' = [i \in Tasks |-> StartStripped(CacheAfterStripped(cssCache, i - 1), i).data]
         /\ cssCache' = CacheAfterStripped(cssCache, Len(files))
         /\ launched' = IF Tasks = {} THEN "resolved" ELSE launched
         /\ reads' = IssueReads(reads, phase2')
    ELSE /\ launched' = "rejected"
         /\ UNCHANGED <<phase2, writeData, cssCache, reads>>

\* a failed read taken as an empty text: the combined file is written from
\* the files that could be read
ReadDone1_swallow(i, ok) ==
    /\ phase1[i] = "reading"
    /\ LET cache == IF ok THEN CacheParsed(cssCache, files[i], disk[files[i]]) ELSE cssCache
           text == IF ok THEN stripFile("original", cache[files[i]]) ELSE <<>>
           collected == Collect(strippedFiles, i, text)
           steps == [phase1 EXCEPT ![i] = IF ok THEN "done" ELSE "failed"]
       IN  /\ cssCache' =
                  IF ok THEN [cache EXCEPT ![files[i]] = AfterStripFile("original", @)]
                  ELSE cache
           /\ strippedFiles' = collected
           /\ phase1' = steps
           /\ IF \A j \in Tasks : steps[j] # "reading"
              THEN destWrite' = "pending" /\ destData' = Join(Values(collected))
              ELSE UNCHANGED <<destWrite, destData>>
           /\ UNCHANGED launched
    /\ UNCHANGED <<options, disk, phase2, writeData, reads, fn>>

\* a read of phase 1 completes: the parse is cached, the file's text for the
\* combined file is collected, and with the last one the combined file's
\* write is issued; a failed read or parse rejects Promise.all
ReadDone1(i, ok) ==
    /\ phase1[i] = "reading"
    /\ IF ok
       THEN LET cache == CacheParsed(cssCache, files[i], disk[files[i]])
                collected == Collect(strippedFiles, i, stripFile("original", cache[files[i]]))
                steps == [phase1 EXCEPT ![i] = "done"]
            IN  /\ cssCache' = [cache EXCEPT ![files[i]] = AfterStripFile("original", @)]
                /\ strippedFiles' = collected
                /\ phase1' = steps
                /\ IF \A j \in Tasks : steps[j] = "done"
                   THEN destWrite' = "pending" /\ destData' = Join(Values(collected))
                   ELSE UNCHANGED <<destWrite, destData>>
                /\ UNCHANGED launched
       ELSE /\ phase1' = [phase1 EXCEPT ![i] = "failed"]
            /\ launched' = "rejected"
            /\ UNCHANGED <<cssCache, strippedFiles, destWrite, destData>>
    /\ UNCHANGED <<options, disk, phase2, writeData, reads, fn>>

\* a read of phase 2 completes: the parse is cached and the stripped text's
\* write is issued; a failed read or parse rejects
ReadDone2(i, ok) ==
    /\ phase2[i] = "reading"
    /\ IF ok
       THEN LET cache == CacheParsed(cssCache, files[i], disk[files[i]])
            IN  /\ cssCache' = [cache EXCEPT ![files[i]] = AfterStripFile("strip", @)]
                /\ phase2' = [phase2 EXCEPT ![i] = "writing"]
                /\ writeData' = [writeData EXCEPT ![i] = stripFile("strip", cache[files[i]])]
                /\ UNCHANGED launched
       ELSE /\ phase2' = [phase2 EXCEPT ![i] = "failed"]
            /\ launched' = "rejected"
            /\ UNCHANGED <<cssCache, writeData>>
    /\ UNCHANGED <<options, disk, phase1, strippedFiles, destWrite, destData, reads, fn>>

\* fs.readFile of getParsedCSS completes, in whichever phase issued it
ReadDone ==
    \E i \in Tasks, ok \in BOOLEAN :
        /\ launched # "new"
        /\ ok => files[i] \in DOMAIN disk
        /\ IF phase1[i] = "reading" THEN ReadDone1(i, ok) ELSE ReadDone2(i, ok)

\* fs.writeFile of the combined file completes
DestWriteDone ==
    \E ok \in BOOLEAN :
        /\ destWrite = "pending"
        /\ destWrite' = IF ok THEN "ok" ELSE "failed"
        /\ disk' = IF ok THEN WriteFile(disk, dest, destData) ELSE disk
        /\ ThenWriteStripped(ok)
        /\ UNCHANGED <<options, phase1, strippedFiles, destData, fn>>

\* the catch() of a stripped write not throwing the error again: the run
\* resolves when every write has ended
AllStripped_swallow(steps) ==
    IF \A j \in Tasks : steps[j] \in {"done", "failed"} THEN "resolved" ELSE launched

\* Promise.all of writeStrippedFile fulfilled with the first write that ends
AllStripped_any(steps) ==
    IF \E j \in Tasks : steps[j] = "failed" THEN "rejected"
    ELSE IF \E j \in Tasks : steps[j] = "done" THEN "resolved"
    ELSE launched

\* Promise.all of writeStrippedFile: fulfilled with the last write, rejected
\* with the first failure
AllStripped(steps) ==
    IF \E j \in Tasks : steps[j] = "failed" THEN "rejected"
    ELSE IF \A j \in Tasks : steps[j] = "done" THEN "resolved"
    ELSE launched

\* fs.writeFile of one stripped file completes
StrippedWriteDone ==
    \E i \in Tasks, ok \in BOOLEAN :
        /\ launched # "new"
        /\ phase2[i] = "writing"
        /\ phase2' = [phase2 EXCEPT ![i] = IF ok THEN "done" ELSE "failed"]
        /\ disk' = IF ok THEN WriteFile(disk, StrippedPath(files[i]), writeData[i]) ELSE disk
        /\ launched' = AllStripped(phase2')
        /\ UNCHANGED <<options, cssCache, phase1, strippedFiles, destWrite, destData,
                       writeData, reads, fn>>

Next == Launch \/ ReadDone \/ DestWriteDone \/ StrippedWriteDone

(* ------------------------------ Spec: a run ---------------------------- *)

\* the stylesheets on disk in a run: every node of a sheet is different
SheetMixed ==
    <<RawRule(".a"),
      RawMedia(MinWidth(W1200), <<RawRule(".b")>>),
      RawMedia(MinWidth(W300), <<RawRule(".c"), RawRule(".d")>>),
      RawRule(".e")>>

SheetMediaFirst ==
    <<RawMedia(MinWidth(W300), <<RawRule(".f")>>),
      RawMedia(CondPrint, <<RawRule(".g")>>),
      RawMedia(MinWidth(W1200), <<RawRule(".h")>>)>>

RunSheets == {SheetMixed, SheetMediaFirst}

RunWidths == {{}, {W1200}, {W200, W300}}

RunExtracts == {{}, {W300}}

NoCall == [stage |-> "none", source |-> <<>>, parsed |-> <<>>, rules |-> <<>>,
           text |-> <<>>, first |-> <<>>]

\* a Stripper that was constructed, and launch() not yet called
Init ==
    /\ files \in SeqsUpTo(SourcePaths, MaxFiles)
    /\ widths \in RunWidths
    /\ extract \in RunExtracts
    /\ overrideOriginal \in BOOLEAN
    /\ disk \in [SourcePaths -> RunSheets]
    /\ cssCache = <<>>
    /\ launched = "new"
    /\ phase1 = [i \in Tasks |-> "idle"]
    /\ strippedFiles = [i \in Tasks |-> Unsettled]
    /\ destWrite = "none"
    /\ destData = <<>>
    /\ phase2 = [i \in Tasks |-> "idle"]
    /\ writeData = [i \in Tasks |-> <<>>]
    /\ fn = NoCall
    /\ given = [src |-> files, ignore |-> {}, hasIgnore |-> TRUE, hasWidths |-> TRUE]
    /\ built = "yes"
    /\ dest = OutCss
    /\ strippedSuffix = DefaultSuffix
    /\ reads = <<>>

Spec == Init /\ [][Next]_vars

(* ---------------------------- the classifiers ------------------------- *)

FilterNames == {"original", "strip", "extract", "stripExtract"}

\* "7.5", "705"
W7p5 == <<"7", ".", "5">>
W705 == <<"7", "0", "5">>

\* the width the options hold, as widths and as extract
MatchWidths == {W1200, W200, W300, W7p5}

MatchConditions ==
    {MinWidth(W1200), MinWidth(W200), MinWidth(W300), MinWidth(W7p5), MinWidth(W705), CondPrint}

\* a stylesheet of one rule and one @media block, and options of one width
InitMatch ==
    /\ files = <<>>
    /\ \E width \in MatchWidths : widths = {width} /\ extract = {width}
    /\ overrideOriginal = FALSE
    /\ disk = <<>>
    /\ cssCache = <<>>
    /\ launched = "new"
    /\ phase1 = <<>>
    /\ strippedFiles = <<>>
    /\ destWrite = "none"
    /\ destData = <<>>
    /\ phase2 = <<>>
    /\ writeData = <<>>
    /\ given = [src |-> <<>>, ignore |-> {}, hasIgnore |-> TRUE, hasWidths |-> TRUE]
    /\ built = "no"
    /\ dest = OutCss
    /\ strippedSuffix = DefaultSuffix
    /\ reads = <<>>
    /\ \E media \in MatchConditions :
           fn = [NoCall EXCEPT !.stage = "input",
                               !.source = <<RawRule(".x"), RawMedia(media, <<RawRule(".y")>>)>>]

\* rules.filter(filters[name].bind(null, ...)) over the rules of the parse,
\* with the widths for 'original' and 'strip' and the extract widths for
\* 'extract' and 'stripExtract'
Classify ==
    \E name \in FilterNames :
        /\ fn.stage = "input"
        /\ LET cssFile == Parse(fn.source)
               ws == IF name \in {"original", "strip"} THEN widths ELSE extract
           IN  fn' = [fn EXCEPT !.stage = name,
                                !.parsed = cssFile,
                                !.rules = Filter(cssFile, name, ws)]
        /\ UNCHANGED <<options, run>>

NextMatch == Classify

SpecMatch == InitMatch /\ [][NextMatch]_vars

(* --------------------------- the constructor -------------------------- *)

\* a regular expression matched at the start of a text.  Of the syntax the
\* source of the expression may hold: a character standing for itself, "."
\* for any one character, and "+" after either for one or more of it.
RECURSIVE MatchHere(_, _)
MatchHere(re, text) ==
    IF re = <<>> THEN TRUE
    ELSE LET fits(c) == re[1] = "." \/ re[1] = c
         IN  IF Len(re) >= 2 /\ re[2] = "+"
             THEN \E n \in 1..Len(text) :
                      /\ \A k \in 1..n : fits(text[k])
                      /\ MatchHere(SubSeq(re, 3, Len(re)), SubSeq(text, n + 1, Len(text)))
             ELSE /\ text # <<>>
                  /\ fits(text[1])
                  /\ MatchHere(Tail(re), Tail(text))

\* filename.match(new RegExp(source, 'g')): the expression is searched for
\* anywhere in the file name
RegExpSearch(text, source) ==
    \E i \in 0..Len(text) : MatchHere(source, SubSeq(text, i + 1, Len(text)))

\* filterFileName: not the destination, and no match of the suffix
filterFileName(filename) ==
    filename # dest /\ ~RegExpSearch(filename, strippedSuffix)

\* files.filter(filterFileName) of getFileList
Unfiltered == SelectSeq(given.src, filterFileName)

\* getFileList: the list without the files filterFileName or the ignore list
\* excludes
getFileList == SelectSeq(Unfiltered, LAMBDA filename : filename \notin given.ignore)

\* what makes new Stripper(options) throw: no widths, no dest, an empty list
\* from glob.sync(src) or files.src, or indexOf called on the ignore list that
\* is not there
Throws ==
    \/ ~given.hasWidths
    \/ dest = <<>>
    \/ given.src = <<>>
    \/ ~given.hasIgnore /\ Unfiltered # <<>>

\* new Stripper(options)
New ==
    /\ built = "no"
    /\ IF Throws
       THEN built' = "threw" /\ files' = files
       ELSE built' = "yes" /\ files' = getFileList
    /\ UNCHANGED <<widths, extract, overrideOriginal, given, dest, strippedSuffix, run, fn>>

NextCfg == New \/ Launch \/ ReadDone \/ DestWriteDone \/ StrippedWriteDone

\* "a.stripped.css", "c.CSS", "a.v+1.css"
PathAStripped == <<"a", ".">> \o Stripped \o DotCss
PathUpper == <<"c", ".", "C", "S", "S">>
PathPlus == <<"a", ".", "v", "+", "1">> \o DotCss

\* the paths that glob.sync(src) or files.src may hold
CfgPaths == {PathA, OutCss, PathAStripped, PathUpper, PathPlus}

\* ".stripped.css", "v+1"
DotStrippedCss == <<".">> \o Stripped \o DotCss
SuffixPlus == <<"v", "+", "1">>

CfgSuffixes == {DefaultSuffix, DotStrippedCss, SuffixPlus}

CfgDests == {<<>>, OutCss, PathAStripped}

\* the ignore list: empty, holding "a.css", or not there (options.files
\* without an ignore member)
CfgIgnores ==
    {[has |-> TRUE, list |-> {}], [has |-> TRUE, list |-> {PathA}], [has |-> FALSE, list |-> {}]}

\* the options a Stripper is constructed from; every file holds the same text
InitCfg ==
    /\ \E src \in SeqsUpTo(CfgPaths, MaxFiles), ig \in CfgIgnores, hasWidths \in BOOLEAN :
           given = [src |-> src, ignore |-> ig.list, hasIgnore |-> ig.has,
                    hasWidths |-> hasWidths]
    /\ dest \in CfgDests
    /\ strippedSuffix \in CfgSuffixes
    /\ overrideOriginal \in BOOLEAN
    /\ widths = {W1200}
    /\ extract = {}
    /\ built = "no"
    /\ files = <<>>
    /\ disk = [p \in CfgPaths |-> SheetMixed]
    /\ cssCache = <<>>
    /\ launched = "new"
    /\ phase1 = <<>>
    /\ strippedFiles = <<>>
    /\ destWrite = "none"
    /\ destData = <<>>
    /\ phase2 = <<>>
    /\ writeData = <<>>
    /\ reads = <<>>
    /\ fn = NoCall

\* a Stripper constructed from its options and launched
SpecCfg == InitCfg /\ [][NextCfg]_vars

\* the run with launch() called and every read and write that was issued
\* completing, with success or with an error
SpecLive ==
    /\ Spec
    /\ WF_vars(Launch)
    /\ WF_vars(ReadDone)
    /\ WF_vars(DestWriteDone)
    /\ WF_vars(StrippedWriteDone)

(* ------------------- SpecFn: stripFile on one stylesheet --------------- *)

\* a stylesheet and the two width lists; no run
InitFn ==
    /\ files = <<>>
    /\ widths \in SUBSET WidthTokens
    /\ extract \in SUBSET WidthTokens
    /\ overrideOriginal = FALSE
    /\ disk = <<>>
    /\ cssCache = <<>>
    /\ launched = "new"
    /\ phase1 = <<>>
    /\ strippedFiles = <<>>
    /\ destWrite = "none"
    /\ destData = <<>>
    /\ phase2 = <<>>
    /\ writeData = <<>>
    /\ given = [src |-> <<>>, ignore |-> {}, hasIgnore |-> TRUE, hasWidths |-> TRUE]
    /\ built = "no"
    /\ dest = OutCss
    /\ strippedSuffix = DefaultSuffix
    /\ reads = <<>>
    /\ \E source \in SeqsUpTo(RawNodes, MaxRules) :
           fn = [NoCall EXCEPT !.stage = "input", !.source = source]

\* stripFile(instance, filter, filename) on the parse of a text
Call(stage, filter, source) ==
    LET cssFile == Parse(source)
    IN  fn' = [fn EXCEPT !.stage = stage,
                         !.parsed = cssFile,
                         !.rules = stripRules(filter, cssFile),
                         !.text = stripFile(filter, cssFile)]

\* the stylesheet's part of the combined file
StripOriginal ==
    /\ fn.stage = "input"
    /\ Call("original", "original", fn.source)
    /\ UNCHANGED <<options, run>>

\* the stylesheet's stripped file
StripOnce ==
    /\ fn.stage = "input"
    /\ Call("stripped", "strip", fn.source)
    /\ UNCHANGED <<options, run>>

\* the stripped file stripped again, with the same options
StripAgain ==
    /\ fn.stage = "stripped"
    /\ fn' = [fn EXCEPT !.stage = "restripped",
                        !.first = fn.text,
                        !.parsed = Parse(fn.text),
                        !.rules = stripRules("strip", Parse(fn.text)),
                        !.text = stripFile("strip", Parse(fn.text))]
    /\ UNCHANGED <<options, run>>

NextFn == StripOriginal \/ StripOnce \/ StripAgain

SpecFn == InitFn /\ [][NextFn]_vars

(* -------------------------- reading the outputs ----------------------- *)

InSeq(x, seq) == \E k \in 1..Len(seq) : seq[k] = x

\* s is t with some elements left out, the others in t's order
RECURSIVE IsSubSeq(_, _)
IsSubSeq(s, t) ==
    IF s = <<>> THEN TRUE
    ELSE IF t = <<>> THEN FALSE
    ELSE IF Head(s) = Head(t) THEN IsSubSeq(Tail(s), Tail(t))
    ELSE IsSubSeq(s, Tail(t))

\* the texts between the newlines of a joined text
RECURSIVE Blocks(_)
Blocks(text) ==
    IF ~InSeq(NewLine, text) THEN <<text>>
    ELSE LET k == CHOOSE k \in 1..Len(text) :
                      text[k] = NewLine /\ \A j \in 1..(k - 1) : text[j] # NewLine
         IN  <<SubSeq(text, 1, k - 1)>> \o Blocks(SubSeq(text, k + 1, Len(text)))

\* a media block whose condition holds `${w}px` for a strip width w
MatchesStripWidth(node) ==
    node.type = "media" /\ \E w \in widths : Match(node.media, Px(w))

\* a media block whose condition holds `${w}px` for an extract width w
MatchesExtractWidth(node) ==
    node.type = "media" /\ \E w \in extract : Match(node.media, Px(w))

\* the nodes of a parsed stylesheet, nested ones included
RECURSIVE NodesOf(_)
NodesOf(rules) ==
    {rules[k] : k \in 1..Len(rules)} \cup UNION {NodesOf(rules[k].rules) : k \in 1..Len(rules)}

(* -------------------------------- claims ------------------------------- *)

\* C1: after a run of launch() with an empty extract list that resolved, for
\* every source file: each top-level node that is a media block matching a
\* strip width is in the file's block of the combined file and not in its
\* stripped file, each other node is in its stripped file and not in the
\* block; both outputs keep the file's order and together they hold as many
\* nodes as the file.
C1_EveryNodeInOneOutput ==
    (launched = "resolved" /\ extract = {}) =>
        \A i \in Tasks :
            LET nodes == Stringify(cssCache[files[i]])
                block == Blocks(disk[dest])[i]
                stripped == disk[StrippedPath(files[i])]
            IN  /\ \A k \in 1..Len(nodes) :
                       IF MatchesStripWidth(nodes[k])
                       THEN InSeq(nodes[k], block) /\ ~InSeq(nodes[k], stripped)
                       ELSE InSeq(nodes[k], stripped) /\ ~InSeq(nodes[k], block)
                /\ IsSubSeq(block, nodes)
                /\ IsSubSeq(stripped, nodes)
                /\ Len(block) + Len(stripped) = Len(nodes)

C1_Witness ==
    /\ launched = "resolved"
    /\ extract = {}
    /\ Len(files) = 2
    /\ \A i \in Tasks :
           /\ Blocks(disk[dest])[i] # <<>>
           /\ disk[StrippedPath(files[i])] # <<>>

\* C2: for every node of a stylesheet that went through stripFile, and the
\* strip widths of the call, exactly one of filterMediaQueries and
\* filterNonMediaQueries holds.
C2_ExactlyOneFilter ==
    \A node \in NodesOf(fn.parsed) :
        filterMediaQueries(widths, node) # filterNonMediaQueries(widths, node)

C2_Witness ==
    /\ fn.stage = "original"
    /\ \E m, n, r \in NodesOf(fn.parsed) :
           /\ filterNonMediaQueries(widths, m)
           /\ n.type = "media" /\ filterMediaQueries(widths, n)
           /\ r.type = "rule"

C2_WitnessNoWidths ==
    /\ fn.stage = "original"
    /\ widths = {}
    /\ \E m \in NodesOf(fn.parsed) : m.type = "media"

\* C3: with a non-empty extract list the rules of the stripped stylesheet
\* are the file's nodes that pass filterMediaQueries(widths) and
\* filterMediaQueriesNotToExtract(extract), in order, followed by the
\* children of the nodes that pass filterMediaQueries(widths) and
\* filterMediaQueriesToExtract(extract), in order; no top-level block that
\* matches an extract width is in the output, and no child of a block that
\* matches both a strip width and an extract width is.
C3_ExtractUnwraps ==
    (fn.stage = "stripped" /\ extract # {}) =>
        LET keep(r) ==
                filterMediaQueries(widths, r) /\ filterMediaQueriesNotToExtract(extract, r)
            open(r) ==
                filterMediaQueries(widths, r) /\ filterMediaQueriesToExtract(extract, r)
            opened == SelectSeq(fn.parsed, open)
        IN  /\ fn.rules = SelectSeq(fn.parsed, keep)
                              \o Concat([k \in 1..Len(opened) |-> opened[k].rules])
            /\ \A k \in 1..Len(fn.parsed) :
                   /\ MatchesExtractWidth(fn.parsed[k]) => ~InSeq(fn.parsed[k], fn.rules)
                   /\ (MatchesExtractWidth(fn.parsed[k]) /\ MatchesStripWidth(fn.parsed[k])) =>
                          \A c \in 1..Len(fn.parsed[k].rules) :
                              ~InSeq(fn.parsed[k].rules[c], fn.rules)

C3_Witness ==
    /\ fn.stage = "stripped"
    /\ extract # {}
    /\ \E j, k \in 1..Len(fn.parsed) :
           /\ MatchesExtractWidth(fn.parsed[j]) /\ ~MatchesStripWidth(fn.parsed[j])
           /\ InSeq(fn.parsed[j].rules[1], fn.rules)
           /\ MatchesExtractWidth(fn.parsed[k]) /\ MatchesStripWidth(fn.parsed[k])


\* C4: no step of phase 2 (a stripped file's classification, read or write)
\* has begun unless every source file was read and parsed and the combined
\* file's write has completed successfully.
C4_PhaseOneFirst ==
    (\E i \in Tasks : phase2[i] # "idle") =>
        /\ destWrite = "ok"
        /\ dest \in DOMAIN disk /\ disk[dest] = destData
        /\ \A j \in Tasks : phase1[j] = "done" /\ files[j] \in DOMAIN cssCache

C4_Witness ==
    /\ Len(files) = 2
    /\ phase2[1] = "writing"
    /\ phase2[2] = "done"

\* C5: the text handed to the combined file's write is, block by block
\* between the newlines, the 'original' text of the source files in the order
\* of the file list, whatever the order the reads completed in.
C5_CombinedInListOrder ==
    (destWrite # "none") =>
        /\ Len(Blocks(destData)) = (IF files = <<>> THEN 1 ELSE Len(files))
        /\ \A i \in Tasks :
               Blocks(destData)[i] = Stringify(SelectSeq(cssCache[files[i]], MatchesStripWidth))

C5_Witness ==
    /\ destWrite = "ok"
    /\ Len(files) = 2
    /\ Blocks(disk[dest])[1] # <<>>
    /\ Blocks(disk[dest])[2] # <<>>
    /\ Blocks(disk[dest])[1] # Blocks(disk[dest])[2]

\* C6: once the combined file's write has failed, launch() is rejected, no
\* step of phase 2 is ever taken and no stripped file is on disk.
C6_CombinedFailureAborts ==
    (destWrite = "failed") =>
        /\ launched = "rejected"
        /\ \A i \in Tasks : phase2[i] = "idle" /\ writeData[i] = <<>>
        /\ DOMAIN disk = SourcePaths
        /\ \A p \in SourcePaths : disk[p] \in RunSheets

C6_Witness ==
    /\ destWrite = "failed"
    /\ Len(files) = 2
    /\ launched = "rejected"

\* C7: when a stripped file's write has failed, the write of every other
\* source file has been issued (it is in flight or has ended), and launch()
\* is rejected.
C7_StrippedFailureIsolated ==
    (\E i \in Tasks : phase2[i] = "failed") =>
        /\ launched = "rejected"
        /\ \A j \in Tasks : phase2[j] \in {"writing", "done", "failed"}

C7_Witness ==
    /\ Len(files) = 2
    /\ files[1] # files[2]
    /\ phase2[1] = "failed"
    /\ phase2[2] = "done"
    /\ disk[StrippedPath(files[2])] = writeData[2]


\* no read and no write is in flight
Quiescent ==
    /\ launched # "new"
    /\ destWrite # "pending"
    /\ \A i \in Tasks : phase1[i] # "reading" /\ phase2[i] \notin {"reading", "writing"}

\* C8 as claimed: when a read or parse has failed and the run has come to
\* rest, the outputs of the files that were read are there: the combined
\* file is written and so is the stripped file of each of them.
C8_OthersStillProduced ==
    (Quiescent /\ \E i \in Tasks : phase1[i] = "failed") =>
        \A j \in Tasks :
            phase1[j] = "done" => (destWrite = "ok" /\ phase2[j] = "done")

\* C8, amended: a failed read or parse rejects launch() and ends the run's
\* output: the combined file's write is never issued and phase 2 never
\* starts, so no file is written.  Only the failing file's step is cut
\* short: every other file is still being read, or was read, parsed, cached
\* and its text for the combined file collected.
C8_ReadFailureRejectsRun ==
    (\E i \in Tasks : phase1[i] = "failed") =>
        /\ launched = "rejected"
        /\ destWrite = "none"
        /\ \A j \in Tasks : phase2[j] = "idle"
        /\ dest \notin DOMAIN disk
        /\ \A j \in Tasks :
               \/ phase1[j] \in {"reading", "failed"}
               \/ /\ phase1[j] = "done"
                  /\ files[j] \in DOMAIN cssCache
                  /\ strippedFiles[j].settled
                  /\ strippedFiles[j].value =
                         Stringify(SelectSeq(cssCache[files[j]], MatchesStripWidth))

C8_Witness ==
    /\ Len(files) = 2
    /\ files[1] # files[2]
    /\ phase1[1] = "failed"
    /\ phase1[2] = "done"
    /\ strippedFiles[2].value # <<>>
    /\ files[1] \notin DOMAIN cssCache

\* the children of the blocks stripFile unwraps hold no media block that
\* matches a strip width or an extract width
UnwrapsNoMatchingMedia ==
    \A k \in 1..Len(fn.source) :
        (filterMediaQueries(widths, fn.source[k])
            /\ filterMediaQueriesToExtract(extract, fn.source[k])) =>
                \A c \in 1..Len(fn.source[k].rules) :
                    /\ ~MatchesStripWidth(fn.source[k].rules[c])
                    /\ ~MatchesExtractWidth(fn.source[k].rules[c])

\* C9 as claimed: stripping the stripped text again, with the same widths,
\* gives the same text, and the first stripped text has no top-level media
\* block matching a strip width.
C9_Idempotent ==
    (fn.stage = "restripped") =>
        /\ fn.text = fn.first
        /\ \A k \in 1..Len(fn.first) : ~MatchesStripWidth(fn.first[k])

\* C9, amended: the same, for the stylesheets in which no child of an
\* unwrapped block (one that matches an extract width and no strip width) is
\* itself a media block matching a strip width or an extract width.
C9_IdempotentWithoutNestedMatch ==
    (fn.stage = "restripped" /\ UnwrapsNoMatchingMedia) =>
        /\ fn.text = fn.first
        /\ \A k \in 1..Len(fn.first) : ~MatchesStripWidth(fn.first[k])

C9_Witness ==
    /\ fn.stage = "restripped"
    /\ UnwrapsNoMatchingMedia
    /\ \E k \in 1..Len(fn.source) :
           /\ filterMediaQueries(widths, fn.source[k])
           /\ filterMediaQueriesToExtract(extract, fn.source[k])
           /\ Len(fn.source[k].rules) = 2
    /\ \E k \in 1..Len(fn.source) : MatchesStripWidth(fn.source[k])

\* C10 as claimed: with no strip widths the rules of the stripped stylesheet
\* are the rules of the parse.
C10_NoWidthsKeepsAll ==
    (fn.stage = "stripped" /\ widths = {}) => fn.rules = fn.parsed

\* C10, amended: the same, when no top-level media block matches an extract
\* width (as with an empty extract list).
C10_NoWidthsNoExtractKeepsAll ==
    (/\ fn.stage = "stripped"
     /\ widths = {}
     /\ \A k \in 1..Len(fn.parsed) : ~MatchesExtractWidth(fn.parsed[k]))
        => (fn.rules = fn.parsed /\ fn.text = fn.source)

C10_Witness ==
    /\ fn.stage = "stripped"
    /\ widths = {}
    /\ extract # {}
    /\ Len(fn.parsed) = 2
    /\ \A k \in 1..Len(fn.parsed) :
           fn.parsed[k].type = "media" /\ ~MatchesExtractWidth(fn.parsed[k])

\* C11: the text written to the combined file does not depend on the extract
\* option: it is the text the run would have written under any other extract
\* set, the files and the strip widths being the same. Extraction acts on the
\* stripped files alone.
C11_CombinedIgnoresExtract ==
    destWrite # "none" =>
        \A ext \in SUBSET WidthTokens :
            destData =
                Join([i \in Tasks |->
                        Stringify(stripRulesWith("original", cssCache[files[i]], widths, ext))])

\* the combined file is written from a file that holds a block matching a
\* strip width and an extract width at once
C11_Witness ==
    /\ destWrite = "ok"
    /\ extract # {}
    /\ \E i \in Tasks : \E k \in 1..Len(cssCache[files[i]]) :
           LET rule == cssCache[files[i]][k]
           IN  /\ filterMediaQueries(widths, rule)
               /\ filterMediaQueriesToExtract(extract, rule)

\* C16: when phase 2 starts the cache holds the parse of every file of the
\* list, so no step of phase 2 is ever waiting for a read, and the text of
\* every stripped file is stripFile('strip') of the cached stylesheet, in
\* override mode as well.
C16_PhaseTwoFromCache ==
    \A i \in Tasks :
        /\ phase2[i] # "reading"
        /\ phase2[i] # "idle" =>
               /\ files[i] \in DOMAIN cssCache
               /\ writeData[i] = stripFile("strip", cssCache[files[i]])

\* both stripped files are written over their sources
C16_Witness ==
    /\ overrideOriginal
    /\ Len(files) = 2
    /\ files[1] # files[2]
    /\ \A i \in Tasks : phase2[i] = "done" /\ disk[files[i]] = writeData[i]

\* C18: no step changes a stylesheet the cache holds; a stylesheet that
\* enters the cache is the parse of the file's text, and it stays so through
\* every stripFile call of both phases.
C18_CacheNeverModified ==
    [][\A p \in DOMAIN cssCache' :
          IF p \in DOMAIN cssCache
          THEN cssCache'[p] = cssCache[p]
          ELSE cssCache'[p] = Parse(disk[p])]_vars

\* a file went through stripFile('original') and stripFile('strip') with
\* blocks unwrapped, and its cached stylesheet is still the parse of its text
C18_Witness ==
    \E i \in Tasks :
        /\ phase2[i] = "done"
        /\ extract # {}
        /\ ~overrideOriginal
        /\ cssCache[files[i]] = Parse(disk[files[i]])
        /\ stripRules("strip", cssCache[files[i]]) # cssCache[files[i]]
        /\ stripRules("original", cssCache[files[i]]) # cssCache[files[i]]
        /\ \E k \in 1..Len(cssCache[files[i]]) :
               filterMediaQueriesToExtract(extract, cssCache[files[i]][k])

\* the paths of the source list
ListedPaths == {files[i] : i \in Tasks}

\* C17 as stated: within a run no path is read more than once.
C17_EachPathReadOnce ==
    \A p \in DOMAIN reads : reads[p] <= 1

\* C17: from the call of launch() on, the reads started for a path are as many
\* as the entries of the list that name it: every entry starts one read in
\* the turn of launch(), when the cache is empty, and no later step starts
\* another. A path listed once is read once.
C17_OneReadPerListEntry ==
    launched # "new" =>
        /\ DOMAIN reads = ListedPaths
        /\ \A p \in ListedPaths : reads[p] = Cardinality({i \in Tasks : files[i] = p})

\* a run over two different files has ended with each read once
C17_Witness ==
    /\ launched = "resolved"
    /\ Len(files) = 2
    /\ files[1] # files[2]
    /\ \A i \in Tasks : phase2[i] = "done" /\ reads[files[i]] = 1

\* C19: launch() is resolved only with the combined file written and the
\* stripped file of every source written; and with every read and write that
\* was issued completing, launch() is settled in the end, resolved or
\* rejected.
C19_ResolvesOnlyWhenAllWritten ==
    /\ [](launched = "resolved" =>
             /\ destWrite = "ok"
             /\ \A i \in Tasks : phase2[i] = "done")
    /\ <>(launched \in {"resolved", "rejected"})

\* launch() is resolved after two files, the combined file on disk
C19_Witness ==
    /\ launched = "resolved"
    /\ Len(files) = 2
    /\ destWrite = "ok"
    /\ dest \in DOMAIN disk /\ disk[dest] = destData

\* C13: a Stripper is constructed only with a source list that is not empty
\* once the destination, the stripped files and the ignored files are taken
\* out of it, so launch() never runs over an empty list.
C13_EmptyListThrows ==
    /\ built = "yes" => files # <<>>
    /\ launched # "new" => files # <<>>

\* the text occurs in the file name, character for character
Contains(filename, text) == \E i \in 0..Len(filename) : OccursAt(filename, text, i)

\* C14: no path of the source list of a constructed Stripper is the
\* destination, holds the stripped suffix as a substring, or is in the ignore
\* list.
C14_ListExcludes ==
    built = "yes" =>
        \A i \in Tasks :
            /\ files[i] # dest
            /\ ~Contains(files[i], strippedSuffix)
            /\ files[i] \notin given.ignore

\* the stripped file of entry i has been computed and its write issued
WriteIssued(i) == launched # "new" /\ phase2[i] \in {"writing", "done", "failed"}

\* path is name.suffix.css for filename name.css
SuffixedForm(filename, path) ==
    \E n \in 1..Len(filename) :
        /\ filename = SubSeq(filename, 1, n) \o DotCss
        /\ path = SubSeq(filename, 1, n) \o <<".">> \o CleanSuffix(strippedSuffix) \o DotCss

\* C15: without overrideOriginal a stripped file is written to
\* name.suffix.css, a path that is not the source's nor any other source's;
\* with overrideOriginal it is written to the source's path.
C15_StrippedPathForm ==
    \A i \in Tasks :
        WriteIssued(i) =>
            IF overrideOriginal
            THEN StrippedPath(files[i]) = files[i]
            ELSE /\ SuffixedForm(files[i], StrippedPath(files[i]))
                 /\ StrippedPath(files[i]) # files[i]
                 /\ StrippedPath(files[i]) \notin ListedPaths

\* C20: no stripped file is written to the destination path, the stripped
\* files of two different sources go to two different paths, and when
\* launch() is resolved the destination still holds the combined text.
C20_CombinedNotOverwritten ==
    /\ \A i \in Tasks :
           WriteIssued(i) =>
               /\ StrippedPath(files[i]) # dest
               /\ \A j \in Tasks :
                      files[j] # files[i] => StrippedPath(files[j]) # StrippedPath(files[i])
    /\ launched = "resolved" => dest \in DOMAIN disk /\ disk[dest] = destData

\* the one width of the options
TheWidth == CHOOSE width \in widths : TRUE

\* C12: under each of the four filters a media block counts as matching a
\* width exactly when the width followed by "px" occurs in its condition,
\* character for character: 'original' and 'extract' keep the block exactly
\* then, 'strip' and 'stripExtract' drop it exactly then.
C12_MatchIsLiteralSubstring ==
    fn.stage \in FilterNames =>
        LET block == fn.parsed[2]
            kept == \E k \in 1..Len(fn.rules) : fn.rules[k] = block
            literal == Contains(block.media, Px(TheWidth))
        IN  IF fn.stage \in {"original", "extract"}
            THEN kept <=> literal
            ELSE kept <=> ~literal

====
